---- MODULE Spec2Model ----
(***************************************************************************)
(* postfix-tlspol: a socketmap policy daemon that tells Postfix whether a  *)
(* recipient domain must be reached with DANE or MTA-STS.                  *)
(*                                                                         *)
(* The repository holds two generations of the program:                    *)
(*   - src/internal/server.go : the daemon (netstring front end, valkey    *)
(*     cache, queryDomain racing the two evaluators over a channel);       *)
(*   - src/unnamed/part_001   : the first, self-contained main program     *)
(*     (one request per connection, the evaluators checkDANE and           *)
(*     checkMTASTS, the DNS helpers).                                      *)
(* Specifications:                                                         *)
(*   Spec       the daemon of server.go, one connection and its cache      *)
(*   SpecDane   checkDANE of part_001 against a scripted DNS stub          *)
(*   SpecLegacy handleConnection of part_001                               *)
(***************************************************************************)
EXTENDS Integers, Sequences, FiniteSets, TLC

VARIABLES
    \* ---- checkDANE of part_001 against a DNS stub (SpecDane) ----
    mxResp,      \* the stub's answer to the MX question
    tlsaResp,    \* the stub's answer to each _25._tcp.<mx> TLSA question
    dpc,         \* "start" before checkDANE ran, "done" after
    daneRet,     \* what checkDANE returned, and the TLSA lookups it issued
    \* ---- the daemon of server.go (Spec) ----
    cfg,         \* config.Redis.Disable, config.Server.TlsRpt
    cache,       \* the backend: cache key -> stored JSON and remaining expiry
    pc,          \* where handleConnection stands
    query,       \* the frame the scanner yielded last
    got,         \* tryCachedPolicy's locals: cache, ttl, err of cacheJsonGet
    world,       \* what each evaluator returns for the domain being resolved
    gor,         \* the two evaluator goroutines of the running request
    qd,          \* queryDomain's locals: i, policy, report, ttl, channel closed
    ret,         \* what queryDomain returned
    nScanned,    \* frames yielded by the scanner
    nWritten,    \* writes to the connection
    lastReply,   \* the last write
    via,         \* the path that produced the last write
    ops,         \* cache gets, cache sets and evaluator calls for this frame
    orphans,     \* goroutines of earlier requests still blocked on their send
    ticks,       \* clock steps taken
    \* ---- handleConnection of part_001 (SpecLegacy) ----
    lpc,         \* where the handler stands
    lQuery,      \* the request read from the connection
    lCache,      \* the entry of the domain in Redis
    lDane,       \* danePol, daneTtl
    lSts,        \* stsPol, stsTtl
    lDone,       \* the goroutines that called wg.Done
    lResult,     \* result
    lResultTtl,  \* resultTtl
    lReply,      \* the reply written
    lSet,        \* the client.Set call made
    lConns,      \* connections accepted
    \* ---- checkMTASTS of part_001 against a DNS and HTTPS stub (SpecSts) ----
    txtResp,     \* the stub's answer to the _mta-sts.<domain> TXT question
    httpResp,    \* the stub's answer to the GET of the policy file
    mpc,         \* "start" before checkMTASTS ran, "done" after
    stsRet,      \* what checkMTASTS returned, and whether it called http.Get
    \* ---- StartDaemon of server.go (SpecStart) ----
    spc,         \* where StartDaemon stands
    flags,       \* config.Server.Prefetch, purgeCache
    schema,      \* the value stored under TLSPOL-schema, "" when absent
    keys,        \* purgeDatabase: the keys still to delete
    caller,      \* who called purgeDatabase
    purgeRet,    \* what purgeDatabase returned last
    pf,          \* the prefetcher
    pfKeys,      \* the keys the prefetcher listed for refresh
    dbUsed,      \* StartDaemon has issued a backend command
    delFailed,   \* a Del of the running purge failed
    \* ---- cacheJsonSet of server.go (SpecExpiry) ----
    setTtl,      \* data.Ttl, a uint32 in two limbs
    setJitter,   \* what rand.Uint32N(60) returns
    setDur,      \* the expiry handed to Set, in seconds, a uint32 in two limbs
    xpc          \* "start" before cacheJsonSet ran, "done" after

daneVars == <<mxResp, tlsaResp, dpc, daneRet>>

srvVars == <<cfg, cache, pc, query, got, world, gor, qd, ret, nScanned,
             nWritten, lastReply, via, ops, orphans, ticks>>

legVars == <<lpc, lQuery, lCache, lDane, lSts, lDone, lResult, lResultTtl,
             lReply, lSet, lConns>>

stsVars == <<txtResp, httpResp, mpc, stsRet>>

startVars == <<spc, flags, schema, keys, caller, purgeRet, pf, pfKeys, dbUsed,
               delFailed>>

expVars == <<setTtl, setJitter, setDur, xpc>>

auxVars == <<stsVars, startVars, expVars>>

vars == <<daneVars, srvVars, legVars, auxVars>>

(***************************************************************************)
(* Helpers                                                                 *)
(***************************************************************************)
Range(s) == {s[k] : k \in 1..Len(s)}

\* all orders in which n goroutines can deliver to a channel
Perms(n) == {p \in [1..n -> 1..n] : \A a, b \in 1..n : a # b => p[a] # p[b]}

\* part_001:427-439
RECURSIVE findMinFrom(_, _, _)
findMinFrom(arr, k, min) ==
    IF k > Len(arr) THEN min
    ELSE findMinFrom(arr, k + 1, IF arr[k] < min THEN arr[k] ELSE min)

findMin(arr) == IF Len(arr) = 0 THEN 0 ELSE findMinFrom(arr, 1, arr[1])

(***************************************************************************)
(* The DNS stub.  A response is a transport error (err) or a message with  *)
(* a response code, the AD flag and an answer section.                     *)
(***************************************************************************)
Rcodes == {"NOERROR", "NXDOMAIN", "SERVFAIL"}

RR(type, name, ttl) == [type |-> type, name |-> name, ttl |-> ttl]

TransportError == [err |-> TRUE, rcode |-> "NOERROR", ad |-> FALSE, answer |-> <<>>]

Responses(answers) ==
    {TransportError} \cup
    [err : {FALSE}, rcode : Rcodes, ad : BOOLEAN, answer : answers]

MXTargets == {"mx1", "mx2"}

MXAnswers ==
    { <<>>,
      <<RR("MX", "mx1", 300)>>,
      <<RR("MX", "mx1", 300), RR("MX", "mx2", 60)>>,
      <<RR("CNAME", "alias", 30), RR("MX", "mx2", 600)>> }

TLSAAnswers ==
    { <<>>,
      <<RR("TLSA", "", 120)>>,
      <<RR("RRSIG", "", 20), RR("TLSA", "", 900)>>,
      <<RR("CNAME", "", 45)>> }

MXResponses == Responses(MXAnswers)
TLSAResponses == Responses(TLSAAnswers)

RcodeOk(r) == r.rcode = "NOERROR" \/ r.rcode = "NXDOMAIN"

\* the records of one type in an answer section, in order
RECURSIVE OfType(_, _)
OfType(answer, type) ==
    IF answer = <<>> THEN <<>>
    ELSE (IF Head(answer).type = type THEN <<Head(answer)>> ELSE <<>>)
         \o OfType(Tail(answer), type)

(***************************************************************************)
(* getMXRecords, part_001:267-295                                          *)
(***************************************************************************)
getMXRecords_noAD(r) ==
    IF r.err THEN [mx |-> <<>>, ttl |-> 0, err |-> TRUE]
    ELSE IF ~RcodeOk(r) THEN [mx |-> <<>>, ttl |-> 0, err |-> TRUE]
    ELSE LET recs == OfType(r.answer, "MX")
         IN [mx  |-> [k \in 1..Len(recs) |-> recs[k].name],
             ttl |-> findMin([k \in 1..Len(recs) |-> recs[k].ttl]),
             err |-> FALSE]

getMXRecords(r) ==
    IF r.err THEN [mx |-> <<>>, ttl |-> 0, err |-> TRUE]
    ELSE IF ~RcodeOk(r) THEN [mx |-> <<>>, ttl |-> 0, err |-> TRUE]
    ELSE LET recs == IF r.ad THEN OfType(r.answer, "MX") ELSE <<>>
         IN [mx  |-> [k \in 1..Len(recs) |-> recs[k].name],
             ttl |-> findMin([k \in 1..Len(recs) |-> recs[k].ttl]),
             err |-> FALSE]

(***************************************************************************)
(* checkTLSA, part_001:303-330.  The empty-answer test comes before the    *)
(* response-code test, as in the source.                                   *)
(***************************************************************************)
ResultWithTtl(result, ttl, err) == [Result |-> result, Ttl |-> ttl, Err |-> err]

checkTLSA_noAD(r) ==
    IF r.err THEN ResultWithTtl(FALSE, 0, TRUE)
    ELSE IF Len(r.answer) = 0 THEN ResultWithTtl(FALSE, 0, FALSE)
    ELSE IF ~RcodeOk(r) THEN ResultWithTtl(FALSE, 0, TRUE)
    ELSE IF OfType(r.answer, "TLSA") # <<>>
         THEN ResultWithTtl(TRUE, OfType(r.answer, "TLSA")[1].ttl, FALSE)
    ELSE ResultWithTtl(FALSE, 0, FALSE)

checkTLSA(r) ==
    IF r.err THEN ResultWithTtl(FALSE, 0, TRUE)
    ELSE IF Len(r.answer) = 0 THEN ResultWithTtl(FALSE, 0, FALSE)
    ELSE IF ~RcodeOk(r) THEN ResultWithTtl(FALSE, 0, TRUE)
    ELSE IF r.ad /\ OfType(r.answer, "TLSA") # <<>>
         THEN ResultWithTtl(TRUE, OfType(r.answer, "TLSA")[1].ttl, FALSE)
    ELSE ResultWithTtl(FALSE, 0, FALSE)

(***************************************************************************)
(* checkDANE, part_001:225-265.  One goroutine per MX target sends its     *)
(* checkTLSA result to a channel buffered for all of them; `order` is the  *)
(* order in which the results arrived.  The collecting loop returns at     *)
(* the first result that carries an error.                                 *)
(***************************************************************************)
DaneRet(policy, ttl, issued) == [policy |-> policy, ttl |-> ttl, issued |-> issued]

RECURSIVE collectTLSA(_, _, _, _, _)
collectTLSA(results, k, ttls, allHaveTLSA, issued) ==
    IF k > Len(results)
    THEN DaneRet(IF allHaveTLSA THEN "dane" ELSE "", findMin(ttls), issued)
    ELSE IF results[k].Err THEN DaneRet("TEMP", 0, issued)
    ELSE collectTLSA(results, k + 1, Append(ttls, results[k].Ttl),
                     allHaveTLSA /\ results[k].Result, issued)

checkDANE(mxr, tlsar, order) ==
    LET m == getMXRecords(mxr)
        issued == Range(m.mx)
        results == [k \in 1..Len(m.mx) |-> checkTLSA(tlsar[m.mx[order[k]]])]
    IN IF m.err THEN DaneRet("TEMP", 0, {})
       ELSE IF Len(m.mx) = 0 THEN DaneRet("", 0, {})
       ELSE collectTLSA(results, 1, <<m.ttl>>, TRUE, issued)

(***************************************************************************)
(* The MTA-STS evaluator of part_001                                       *)
(***************************************************************************)
\* a TXT record with its character strings
TXT(strings) == [type |-> "TXT", txt |-> strings, ttl |-> 300]

TXTAnswers ==
    { <<>>,
      <<TXT(<<"v=STSv1; id=20240101">>)>>,
      <<TXT(<<"v=spf1 -all">>), TXT(<<"x", "v=STSv1;id=7">>)>>,
      <<TXT(<<" v=STSv1; id=1">>)>>,
      <<[type |-> "CNAME", txt |-> <<>>, ttl |-> 60]>> }

TXTResponses == Responses(TXTAnswers)

\* strings.HasPrefix(txtRecord, "v=STSv1"), part_001:375
HasSTSv1Prefix(str) == str \in {"v=STSv1; id=20240101", "v=STSv1;id=7"}

checkMTASTSRecord_noRcode(r) ==
    IF r.err THEN [has |-> FALSE, err |-> TRUE]
    ELSE IF Len(r.answer) = 0 THEN [has |-> FALSE, err |-> FALSE]
    ELSE [has |-> \E k \in 1..Len(r.answer) :
                     /\ r.answer[k].type = "TXT"
                     /\ \E j \in 1..Len(r.answer[k].txt) :
                            HasSTSv1Prefix(r.answer[k].txt[j]),
          err |-> FALSE]

\* checkMTASTSRecord, part_001:354-382
checkMTASTSRecord(r) ==
    IF r.err THEN [has |-> FALSE, err |-> TRUE]
    ELSE IF ~RcodeOk(r) THEN [has |-> FALSE, err |-> TRUE]
    ELSE IF Len(r.answer) = 0 THEN [has |-> FALSE, err |-> FALSE]
    ELSE [has |-> \E k \in 1..Len(r.answer) :
                     /\ r.answer[k].type = "TXT"
                     /\ \E j \in 1..Len(r.answer[k].txt) :
                            HasSTSv1Prefix(r.answer[k].txt[j]),
          err |-> FALSE]

\* A policy file is a sequence of lines; a line is written as the pieces
\* strings.Split(line, ":") gives.
PolicyFiles ==
    { << <<"version", " STSv1">>, <<"mode", " enforce">>,
         <<"mx", " mx1.example.org">>, <<"mx", " *.example.net">>,
         <<"max_age", " 86400">> >>,
      << <<"version", " STSv1">>, <<"mode", " testing">>,
         <<"mx", " mx1.example.org">>, <<"max_age", " 604800">> >>,
      << <<"mode", "enforce">>, <<"mx", "mx1.example.org">>,
         <<"mx", " mx1.example.org">>, <<"max_age", " 60">> >>,
      << <<"mode", " none">>, <<"max_age", " 0">> >>,
      << <<"mode", " enforce">>, <<"mx", " mx1.example.org">>,
         <<"max_age", " soon">> >>,
      << <<"<html>">> >> }

HTTPResponses ==
    {[err |-> TRUE, status |-> 0, body |-> <<>>]}
    \cup [err : {FALSE}, status : {200, 404, 503}, body : PolicyFiles]

\* strings.TrimSpace on the values of the policy files
TrimSpace(v) ==
    CASE v = " STSv1" -> "STSv1"
      [] v = " enforce" -> "enforce"
      [] v = " testing" -> "testing"
      [] v = " none" -> "none"
      [] v = " mx1.example.org" -> "mx1.example.org"
      [] v = " *.example.net" -> "*.example.net"
      [] v = " 86400" -> "86400"
      [] v = " 604800" -> "604800"
      [] v = " 60" -> "60"
      [] v = " 0" -> "0"
      [] v = " soon" -> "soon"
      [] OTHER -> v

\* strconv.ParseUint(v, 10, 32): the value, or an error
ParseUint(v) ==
    CASE v = "86400" -> [err |-> FALSE, n |-> 86400]
      [] v = "604800" -> [err |-> FALSE, n |-> 604800]
      [] v = "60" -> [err |-> FALSE, n |-> 60]
      [] v = "0" -> [err |-> FALSE, n |-> 0]
      [] OTHER -> [err |-> TRUE, n |-> 0]

\* mxServer[1:] for a pattern with the prefix "*."
StripWildcard(v) ==
    CASE v = "*.example.net" -> ".example.net"
      [] OTHER -> v

\* strings.HasPrefix(line, key + ":")
HasKey(line, key) == Len(line) >= 2 /\ line[1] = key

\* strings.Join(mxServers, ":")
RECURSIVE Join(_)
Join(strs) ==
    IF strs = <<>> THEN ""
    ELSE IF Len(strs) = 1 THEN strs[1]
    ELSE strs[1] \o ":" \o Join(Tail(strs))

\* the loop of generateTlsPolicyMap over the lines, part_001:389-408
RECURSIVE scanPolicy(_, _, _)
scanPolicy(lines, k, acc) ==
    IF k > Len(lines) THEN acc
    ELSE LET line == lines[k]
             val == TrimSpace(line[2])
             mode == IF HasKey(line, "mode") THEN val ELSE acc.mode
             age == IF HasKey(line, "max_age") /\ ~ParseUint(val).err
                    THEN ParseUint(val).n ELSE acc.maxAge
             mxs == IF HasKey(line, "mx") /\ StripWildcard(val) \notin Range(acc.mxServers)
                    THEN Append(acc.mxServers, StripWildcard(val))
                    ELSE acc.mxServers
         IN scanPolicy(lines, k + 1, [mode |-> mode, maxAge |-> age, mxServers |-> mxs])

StsRet(policy, ttl) == [policy |-> policy, ttl |-> ttl]

generateTlsPolicyMap_anyMode(lines) ==
    LET p == scanPolicy(lines, 1, [mode |-> "", maxAge |-> 0, mxServers |-> <<>>])
    IN IF p.mode \in {"enforce", "testing"}
       THEN StsRet("secure match=" \o Join(p.mxServers) \o " servername=hostname", p.maxAge)
       ELSE StsRet("", p.maxAge)

\* generateTlsPolicyMap, part_001:384-416
generateTlsPolicyMap(lines) ==
    LET p == scanPolicy(lines, 1, [mode |-> "", maxAge |-> 0, mxServers |-> <<>>])
    IN IF p.mode = "enforce"
       THEN StsRet("secure match=" \o Join(p.mxServers) \o " servername=hostname", p.maxAge)
       ELSE StsRet("", p.maxAge)

\* what checkMTASTS returns, and whether it reached http.Get
StsRun(r, fetched) == [policy |-> r.policy, ttl |-> r.ttl, fetched |-> fetched]

\* checkMTASTS, part_001:332-352
checkMTASTS(txtr, httpr) ==
    LET rec == checkMTASTSRecord(txtr)
    IN IF rec.err THEN StsRun(StsRet("TEMP", 0), FALSE)
       ELSE IF ~rec.has THEN StsRun(StsRet("", 0), FALSE)
       ELSE IF httpr.err \/ httpr.status # 200 THEN StsRun(StsRet("TEMP", 0), TRUE)
       ELSE StsRun(generateTlsPolicyMap(httpr.body), TRUE)

(***************************************************************************)
(* The daemon of server.go: constants and data                             *)
(***************************************************************************)
CACHE_NOTFOUND_TTL == 600
CACHE_MIN_TTL == 180
\* declared with the prefetcher, outside server.go; 300 s is taken as the
\* lead time
PREFETCH_MARGIN == 300
JITTER_RANGE == 60

\* uint32 values as two 16-bit limbs, so that 2^32 - 1 and the wrap-around of
\* uint32 sums can be written
LIMB == 65536
U32(x) == [hi |-> x \div LIMB, lo |-> x % LIMB]
U32Val(l) == l.hi * LIMB + l.lo
add32(a, b) ==
    LET lo == a.lo + b.lo
    IN [hi |-> (a.hi + b.hi + lo \div LIMB) % LIMB, lo |-> lo % LIMB]
sub32(a, b) ==
    LET lo == a.lo - b.lo
        borrow == IF lo < 0 THEN 1 ELSE 0
    IN [hi |-> (a.hi - b.hi - borrow + LIMB) % LIMB, lo |-> (lo + LIMB) % LIMB]

CACHE_KEY_PREFIX == "TLSPOL-"

MaxFrames == 2
MaxTicks == 2

\* a write of netstring.Marshal(payload), and of a JSON line
NS(payload) == [framing |-> "netstring", payload |-> payload]
JsonLine(doc) == [framing |-> "json", payload |-> doc]
NS_NOTFOUND == NS("NOTFOUND ")
NS_TEMP == NS("TEMP ")
NS_PERM == NS("PERM ")
NoReply == [framing |-> "none", payload |-> ""]

(***************************************************************************)
(* Request frames.  A frame is the text "<cmd> <arg>" or "<cmd>" alone;    *)
(* sep says whether the text holds a space.                                *)
(***************************************************************************)
Commands == {"QUERY", "query", "QUERYwithTLSRPT", "JSON", "FOO", ""}

Args == {"example.org", " Example.ORG ", "192.0.2.1", "2001:db8::1",
         ".example.org", "exa mple.org", ""}

Frames == [cmd : Commands, sep : {TRUE}, arg : Args]
          \cup [cmd : Commands, sep : {FALSE}, arg : {""}]

\* no frame read yet (a frame without a space has the argument "")
NoFrame == [cmd |-> "", sep |-> FALSE, arg |-> "none"]

\* strings.SplitN(query, " ", 2), server.go:357
SplitN(f) == IF f.sep THEN <<f.cmd, f.arg>> ELSE <<f.cmd>>

\* strings.ToUpper on the command spellings, server.go:358
ToUpper(c) ==
    CASE c = "query" -> "QUERY"
      [] c = "QUERYwithTLSRPT" -> "QUERYWITHTLSRPT"
      [] OTHER -> c

\* strings.ToLower(strings.TrimSpace(arg)), server.go:374
NormalizeDomain(a) ==
    CASE a = " Example.ORG " -> "example.org"
      [] OTHER -> a

\* govalidator's predicates on the normalised arguments
IsIPv4(d) == d = "192.0.2.1"
IsIPv6(d) == d = "2001:db8::1"
IsDNSName(d) == d = "example.org"
\* domain[1:] of a name with a leading dot
DropFirst(d) ==
    CASE d = ".example.org" -> "example.org"
      [] OTHER -> d
HasDotPrefix(d) == d = ".example.org"

\* the three rejections of server.go:383-397
InvalidDomain(d) ==
    \/ IsIPv4(d) \/ IsIPv6(d)
    \/ (HasDotPrefix(d) /\ IsDNSName(DropFirst(d)))
    \/ ~IsDNSName(d)

\* the cases of the switch, server.go:360-368
KnownCommands_lax == {"QUERYWITHTLSRPT", "QUERY", "JSON", "FOO"}

KnownCommands == {"QUERYWITHTLSRPT", "QUERY", "JSON"}

cmdOf(f) == ToUpper(SplitN(f)[1])
domainOf(f) == NormalizeDomain(SplitN(f)[2])

\* withTlsRpt of server.go:359-363
withTlsRpt_always(c) == TRUE

withTlsRpt(c) == IF c = "QUERYWITHTLSRPT" THEN TRUE ELSE cfg.tlsRpt

(***************************************************************************)
(* The cache: getCacheKey, cacheJsonGet, cacheJsonSet                      *)
(***************************************************************************)
ValidDomains == {NormalizeDomain(a) : a \in {b \in Args : ~InvalidDomain(NormalizeDomain(b))}}

\* "TLSPOL-" + base32(sha256(domain)): one key per domain, server.go:235-238
getCacheKey(domain) == <<CACHE_KEY_PREFIX, "sha256", domain>>

CacheKeys == {getCacheKey(d) : d \in ValidDomains}

CacheStruct(domain, result, report, ttl) ==
    [Domain |-> domain, Result |-> result, Report |-> report, Ttl |-> ttl]

ZeroCacheStruct == CacheStruct("", "", "", 0)

\* encoding/json with the tags of server.go:32-37
jsonMarshal(data) == [d |-> data.Domain, r |-> data.Result, p |-> data.Report, t |-> data.Ttl]
jsonUnmarshal(j) == CacheStruct(j.d, j.r, j.p, j.t)

Missing == [present |-> FALSE, json |-> jsonMarshal(ZeroCacheStruct), exp |-> 0]
Stored(json, exp) == [present |-> TRUE, json |-> json, exp |-> exp]

GetResult(data, ttl, err) == [data |-> data, ttl |-> ttl, err |-> err]
NoGet == GetResult(ZeroCacheStruct, 0, FALSE)

\* cacheJsonGet, server.go:466-481.  down: the backend fails the command;
\* a missing key is the error valkey.Nil.
cacheJsonGet(cacheKey, down) ==
    IF down \/ ~cache[cacheKey].present THEN GetResult(ZeroCacheStruct, 0, TRUE)
    ELSE GetResult(jsonUnmarshal(cache[cacheKey].json), cache[cacheKey].exp, FALSE)

\* the expiry of cacheJsonSet, server.go:489, in uint32 arithmetic:
\* data.Ttl + PREFETCH_MARGIN - rand.Uint32N(60)
setExpiry32(ttl32, jitter) == sub32(add32(ttl32, U32(PREFETCH_MARGIN)), U32(jitter))
setExpiry(ttl, jitter) == U32Val(setExpiry32(U32(ttl), jitter))

\* the hit test of tryCachedPolicy, server.go:243
cacheHit_atMargin(g) == ~g.err /\ g.ttl >= PREFETCH_MARGIN

cacheHit(g) == ~g.err /\ g.ttl > PREFETCH_MARGIN

cachedReply_dropsReport(data, tlsrpt) ==
    CASE data.Result = "" -> NS_NOTFOUND
      [] data.Result = "TEMP" -> NS_TEMP
      [] OTHER -> NS("OK " \o data.Result)

\* the write of tryCachedPolicy on a hit, server.go:245-258
cachedReply(data, tlsrpt) ==
    CASE data.Result = "" -> NS_NOTFOUND
      [] data.Result = "TEMP" -> NS_TEMP
      [] OTHER -> NS("OK " \o (IF tlsrpt THEN data.Result \o " " \o data.Report
                                          ELSE data.Result))

\* the write of replySocketmap, server.go:332-348
replySocketmap(policy, report, tlsrpt) ==
    CASE policy = "" -> NS_NOTFOUND
      [] policy = "TEMP" -> NS_TEMP
      [] OTHER -> NS("OK " \o (IF tlsrpt THEN policy \o " " \o report ELSE policy))

(***************************************************************************)
(* queryDomain, server.go:421-464                                          *)
(***************************************************************************)
STS_POLICY == "secure match=mx.example.org servername=hostname"
STS_REPORT == "policy_type=sts policy_domain=example.org"
DANE_POLICY == "dane-only"

PolicyResult(isDane, policy, rpt, ttl) ==
    [IsDane |-> isDane, Policy |-> policy, Rpt |-> rpt, Ttl |-> ttl]

\* what checkDane and checkMtaSts may hand back (policy, report, ttl)
DaneOutcomes ==
    { PolicyResult(TRUE, "", "", 300),
      PolicyResult(TRUE, "TEMP", "", 3600),
      PolicyResult(TRUE, DANE_POLICY, "", 60) }

StsOutcomes ==
    { PolicyResult(FALSE, "", "", 0),
      PolicyResult(FALSE, "TEMP", "", 0),
      PolicyResult(FALSE, STS_POLICY, STS_REPORT, 86400),
      PolicyResult(FALSE, STS_POLICY, "", 30) }

Evaluators == {"dane", "sts"}

NoWorld == [dane |-> PolicyResult(TRUE, "", "", 0), sts |-> PolicyResult(FALSE, "", "", 0)]

QdLocals(i, policy, report, ttl, closed) ==
    [i |-> i, policy |-> policy, report |-> report, ttl |-> ttl, closed |-> closed]

QdStart == QdLocals(0, "", "", CACHE_NOTFOUND_TTL, FALSE)

loopBody_closeEarly(q, r) ==
    LET closed == q.i + 1 >= 1
    IN IF r.Policy = "" THEN QdLocals(q.i + 1, q.policy, q.report, q.ttl, closed)
       ELSE QdLocals(q.i + 1, r.Policy, r.Rpt, r.Ttl, closed)

loopBody_firstWins(q, r) ==
    LET closed == q.i + 1 >= 2
    IN IF r.Policy = "" \/ q.policy # ""
       THEN QdLocals(q.i + 1, q.policy, q.report, q.ttl, closed)
       ELSE QdLocals(q.i + 1, r.Policy, r.Rpt, r.Ttl, closed)

\* one iteration of the loop over the results channel, server.go:441-455
loopBody(q, r) ==
    LET closed == q.i + 1 >= 2
    IN IF r.Policy = "" THEN QdLocals(q.i + 1, q.policy, q.report, q.ttl, closed)
       ELSE QdLocals(q.i + 1, r.Policy, r.Rpt, r.Ttl, closed)

\* the iteration ended the loop: the break of :452-454, or the channel closed
loopExits_noBreak(q, r) == q.i + 1 >= 2

loopExits(q, r) == (r.Policy # "" /\ r.IsDane) \/ q.i + 1 >= 2

\* the TTL normalisation of server.go:457-461
normalizeTtl(policy, ttl) ==
    IF policy = "" THEN CACHE_NOTFOUND_TTL
    ELSE IF policy = "TEMP" \/ ttl < CACHE_MIN_TTL THEN CACHE_MIN_TTL
    ELSE ttl

Ret(policy, report, ttl) == [policy |-> policy, report |-> report, ttl |-> ttl]
NoQueryRet == Ret("", "", 0)

(***************************************************************************)
(* handleConnection, server.go:350-412, one step per blocking operation    *)
(***************************************************************************)
JitterSamples == {0, JITTER_RANGE - 1}
TickSteps == {1, 179}

NoOps == [get |-> 0, set |-> 0, eval |-> 0]

Write(reply, path) ==
    /\ nWritten' = nWritten + 1
    /\ lastReply' = reply
    /\ via' = path

InitServer ==
    /\ cfg \in [redisDisable : BOOLEAN, tlsRpt : BOOLEAN]
    /\ cache = [k \in CacheKeys |-> Missing]
    /\ pc = "scan"
    /\ query = NoFrame
    /\ got = NoGet
    /\ world = NoWorld
    /\ gor = [g \in Evaluators |-> "none"]
    /\ qd = QdStart
    /\ ret = NoQueryRet
    /\ nScanned = 0
    /\ nWritten = 0
    /\ lastReply = NoReply
    /\ via = "none"
    /\ ops = NoOps
    /\ orphans = 0
    /\ ticks = 0

\* ns.Scan() yields a frame; the command switch and the checks up to the
\* cache lookup, server.go:355-397.  The locals of the previous iteration
\* are gone.
Scan ==
    /\ pc = "scan"
    /\ nScanned < MaxFrames
    /\ \E f \in Frames :
        /\ query' = f
        /\ nScanned' = nScanned + 1
        /\ ops' = NoOps
        /\ IF cmdOf(f) \notin KnownCommands
           THEN Write(NS_PERM, "perm") /\ pc' = "closed"
           ELSE IF Len(SplitN(f)) # 2
           THEN Write(NS_NOTFOUND, "input") /\ pc' = "scan"
           ELSE IF cmdOf(f) = "JSON"
           THEN pc' = "json" /\ lastReply' = NoReply /\ via' = "none"
                /\ UNCHANGED nWritten
           ELSE IF InvalidDomain(domainOf(f))
           THEN Write(NS_NOTFOUND, "input") /\ pc' = "scan"
           ELSE pc' = "cache" /\ lastReply' = NoReply /\ via' = "none"
                /\ UNCHANGED nWritten
    /\ got' = NoGet
    /\ world' = NoWorld
    /\ qd' = QdStart
    /\ ret' = NoQueryRet
    /\ UNCHANGED <<cfg, cache, gor, orphans, ticks, daneVars, legVars, auxVars>>

\* ns.Scan() returns false: the client closed; handleConnection returns and
\* the deferred Close runs
ScanEOF ==
    /\ pc = "scan"
    /\ pc' = "closed"
    /\ query' = NoFrame
    /\ got' = NoGet
    /\ world' = NoWorld
    /\ qd' = QdStart
    /\ ret' = NoQueryRet
    /\ UNCHANGED <<cfg, cache, gor, nScanned, nWritten, lastReply, via, ops,
                   orphans, ticks, daneVars, legVars, auxVars>>

\* tryCachedPolicy, server.go:240-263
tryCachedPolicy ==
    /\ pc = "cache"
    /\ IF cfg.redisDisable
       THEN /\ pc' = "query"
            /\ UNCHANGED <<got, ops, nWritten, lastReply, via>>
       ELSE \E down \in BOOLEAN :
            LET g == cacheJsonGet(getCacheKey(domainOf(query)), down)
            IN /\ got' = g
               /\ ops' = [ops EXCEPT !.get = @ + 1]
               /\ IF cacheHit(g)
                  THEN /\ Write(cachedReply(g.data, withTlsRpt(cmdOf(query))), "cache")
                       /\ pc' = "scan"
                  ELSE /\ pc' = "query"
                       /\ UNCHANGED <<nWritten, lastReply, via>>
    /\ UNCHANGED <<cfg, cache, query, world, gor, qd, ret, nScanned, orphans,
                   ticks, daneVars, legVars, auxVars>>

\* queryDomain starts the two goroutines, each calling its evaluator,
\* server.go:421-436
StartQuery ==
    /\ pc = "query"
    /\ \E d \in DaneOutcomes, m \in StsOutcomes : world' = [dane |-> d, sts |-> m]
    /\ gor' = [g \in Evaluators |-> "eval"]
    /\ qd' = QdStart
    /\ ops' = [ops EXCEPT !.eval = @ + 2]
    /\ pc' = "recv"
    /\ UNCHANGED <<cfg, cache, query, got, ret, nScanned, nWritten, lastReply,
                   via, orphans, ticks, daneVars, legVars, auxVars>>

\* an evaluator returns: its goroutine reaches the send on the unbuffered
\* channel (queryDomain), or stores its result and calls wg.Done (replyJson)
EvaluatorReturns(g) ==
    /\ gor[g] = "eval"
    /\ gor' = [gor EXCEPT ![g] = IF pc = "jsonwait" THEN "done" ELSE "send"]
    /\ UNCHANGED <<cfg, cache, pc, query, got, world, qd, ret, nScanned,
                   nWritten, lastReply, via, ops, orphans, ticks, daneVars, legVars, auxVars>>

\* the loop of queryDomain receives the result of goroutine g; when the loop
\* ends queryDomain normalises the TTL and returns, server.go:441-463.  A
\* goroutine that has not delivered by then has no receiver left: it is
\* counted in orphans.
Receive(g) ==
    /\ pc = "recv"
    /\ gor[g] = "send"
    /\ ~qd.closed
    /\ LET q == loopBody(qd, world[g])
           after == [gor EXCEPT ![g] = "done"]
           left == {h \in Evaluators : after[h] \in {"eval", "send"}}
       IN /\ qd' = q
          /\ IF loopExits(qd, world[g])
             THEN /\ ret' = Ret(q.policy, q.report, normalizeTtl(q.policy, q.ttl))
                  /\ pc' = "reply"
                  /\ gor' = [h \in Evaluators |-> IF h \in left THEN "orphan" ELSE after[h]]
                  /\ orphans' = orphans + Cardinality(left)
             ELSE /\ gor' = after
                  /\ UNCHANGED <<ret, pc, orphans>>
    /\ UNCHANGED <<cfg, cache, query, got, world, nScanned, nWritten, lastReply,
                   via, ops, ticks, daneVars, legVars, auxVars>>

Reply_silentNotFound ==
    /\ pc = "reply"
    /\ IF ret.policy = ""
       THEN UNCHANGED <<nWritten, lastReply, via>>
       ELSE Write(replySocketmap(ret.policy, ret.report, withTlsRpt(cmdOf(query))), "resolver")
    /\ pc' = IF cfg.redisDisable THEN "scan" ELSE "store"
    /\ UNCHANGED <<cfg, cache, query, got, world, gor, qd, ret, nScanned, ops,
                   orphans, ticks, daneVars, legVars, auxVars>>

\* replySocketmap, server.go:406
Reply ==
    /\ pc = "reply"
    /\ Write(replySocketmap(ret.policy, ret.report, withTlsRpt(cmdOf(query))), "resolver")
    /\ pc' = IF cfg.redisDisable THEN "scan" ELSE "store"
    /\ UNCHANGED <<cfg, cache, query, got, world, gor, qd, ret, nScanned, ops,
                   orphans, ticks, daneVars, legVars, auxVars>>

Store_failClosed ==
    /\ pc = "store"
    /\ \E down \in BOOLEAN, jitter \in JitterSamples :
        LET data == CacheStruct(domainOf(query), ret.policy, ret.report, ret.ttl)
        IN /\ cache' = IF down THEN cache
                       ELSE [cache EXCEPT ![getCacheKey(domainOf(query))] =
                                 Stored(jsonMarshal(data), setExpiry(data.Ttl, jitter))]
           /\ pc' = IF down THEN "closed" ELSE "scan"
    /\ ops' = [ops EXCEPT !.set = @ + 1]
    /\ UNCHANGED <<cfg, query, got, world, gor, qd, ret, nScanned, nWritten,
                   lastReply, via, orphans, ticks, daneVars, legVars, auxVars>>

\* cacheJsonSet, server.go:408-410 and :483-490; its error is dropped
Store ==
    /\ pc = "store"
    /\ \E down \in BOOLEAN, jitter \in JitterSamples :
        LET data == CacheStruct(domainOf(query), ret.policy, ret.report, ret.ttl)
        IN cache' = IF down THEN cache
                    ELSE [cache EXCEPT ![getCacheKey(domainOf(query))] =
                              Stored(jsonMarshal(data), setExpiry(data.Ttl, jitter))]
    /\ ops' = [ops EXCEPT !.set = @ + 1]
    /\ pc' = "scan"
    /\ UNCHANGED <<cfg, query, got, world, gor, qd, ret, nScanned, nWritten,
                   lastReply, via, orphans, ticks, daneVars, legVars, auxVars>>

\* replyJson starts the two goroutines, server.go:283-305
StartJson ==
    /\ pc = "json"
    /\ \E d \in DaneOutcomes, m \in StsOutcomes : world' = [dane |-> d, sts |-> m]
    /\ gor' = [g \in Evaluators |-> "eval"]
    /\ ops' = [ops EXCEPT !.eval = @ + 2]
    /\ pc' = "jsonwait"
    /\ UNCHANGED <<cfg, cache, query, got, qd, ret, nScanned, nWritten,
                   lastReply, via, orphans, ticks, daneVars, legVars, auxVars>>

jsonResult_merged(domain, w) ==
    [domain |-> domain,
     dane   |-> [policy |-> w.dane.Policy, ttl |-> w.dane.Ttl],
     mtasts |-> IF w.dane.Policy # ""
                THEN [policy |-> "", ttl |-> 0, report |-> ""]
                ELSE [policy |-> w.sts.Policy, ttl |-> w.sts.Ttl, report |-> w.sts.Rpt]]

\* the Result document of server.go:307-321, without version and timings
jsonResult(domain, w) ==
    [domain |-> domain,
     dane   |-> [policy |-> w.dane.Policy, ttl |-> w.dane.Ttl],
     mtasts |-> [policy |-> w.sts.Policy, ttl |-> w.sts.Ttl, report |-> w.sts.Rpt]]

\* wg.Wait() returns and replyJson writes the document, server.go:306-329
ReplyJson ==
    /\ pc = "jsonwait"
    /\ \A g \in Evaluators : gor[g] = "done"
    /\ Write(JsonLine(jsonResult(domainOf(query), world)), "json")
    /\ pc' = "scan"
    /\ UNCHANGED <<cfg, cache, query, got, world, gor, qd, ret, nScanned, ops,
                   orphans, ticks, daneVars, legVars, auxVars>>

\* time passes between two requests: every expiry runs down, expired keys go
Tick ==
    /\ pc = "scan"
    /\ ticks < MaxTicks
    /\ \E k \in CacheKeys : cache[k].present
    /\ \E dt \in TickSteps :
        cache' = [k \in CacheKeys |->
                     IF cache[k].present /\ cache[k].exp > dt
                     THEN [cache[k] EXCEPT !.exp = @ - dt]
                     ELSE Missing]
    /\ ticks' = ticks + 1
    /\ UNCHANGED <<cfg, pc, query, got, world, gor, qd, ret, nScanned, nWritten,
                   lastReply, via, ops, orphans, daneVars, legVars, auxVars>>

Next ==
    \/ Scan
    \/ ScanEOF
    \/ tryCachedPolicy
    \/ StartQuery
    \/ \E g \in Evaluators : EvaluatorReturns(g)
    \/ \E g \in Evaluators : Receive(g)
    \/ Reply
    \/ Store
    \/ StartJson
    \/ ReplyJson
    \/ Tick

\* the scheduler runs every goroutine that can take a step, and every lookup
\* returns; the client is free to send nothing more and time need not pass
Fairness ==
    /\ \A g \in Evaluators : WF_vars(EvaluatorReturns(g))
    /\ \A g \in Evaluators : WF_vars(Receive(g))
    /\ WF_vars(tryCachedPolicy)
    /\ WF_vars(StartQuery)
    /\ WF_vars(Reply)
    /\ WF_vars(Store)
    /\ WF_vars(StartJson)
    /\ WF_vars(ReplyJson)

(***************************************************************************)
(* StartDaemon, server.go:124-207, with updateDatabase and purgeDatabase,  *)
(* one step per backend command.  The backend holds the entries of cache   *)
(* and the schema tag under TLSPOL-schema.                                 *)
(***************************************************************************)
DB_SCHEMA == "3"
SchemaTags == {"", "2", DB_SCHEMA}
SchemaKey == <<CACHE_KEY_PREFIX, "schema">>

\* entries left by an earlier run: one inside the prefetch window, one fresh
STALE_EXPIRY == 200
FRESH_EXPIRY == 3900
OldEntries ==
    { Stored(jsonMarshal(CacheStruct(d, DANE_POLICY, "", 3600)), e) :
          d \in ValidDomains, e \in {STALE_EXPIRY, FRESH_EXPIRY} }

\* the keys KEYS TLSPOL-* returns
MatchingKeys ==
    {k \in CacheKeys : cache[k].present}
        \cup (IF schema # "" THEN {SchemaKey} ELSE {})

reqVars == <<query, got, world, gor, qd, ret, nScanned, nWritten, lastReply,
             via, ops, orphans, ticks>>

StartIdle ==
    /\ spc = "off"
    /\ flags = [prefetch |-> FALSE, purge |-> FALSE]
    /\ schema = ""
    /\ keys = {}
    /\ caller = "none"
    /\ purgeRet = "none"
    /\ pf = "off"
    /\ pfKeys = {}
    /\ dbUsed = FALSE
    /\ delFailed = FALSE

\* the return of purgeDatabase to the place it was called from:
\* updateDatabase (server.go:514) or the --purge branch (server.go:195)
purgeReturns(result) ==
    /\ purgeRet' = result
    /\ spc' = IF caller = "update" THEN "spawn" ELSE "exit"

\* the configuration is loaded; valkey.NewClient when the cache is enabled,
\* server.go:171-181
NewClient ==
    /\ spc = "init"
    /\ IF cfg.redisDisable THEN spc' = "flag"
       ELSE \E ok \in BOOLEAN : spc' = IF ok THEN "update" ELSE "exit"
    /\ UNCHANGED <<cfg, cache, pc, reqVars, flags, schema, keys, caller, purgeRet,
                   pf, pfKeys, dbUsed, delFailed, daneVars, legVars, stsVars, expVars>>

\* updateDatabase: the Get of the schema tag and the comparison,
\* server.go:506-518; its result is dropped by StartDaemon (:183)
updateDatabase ==
    /\ spc = "update"
    /\ dbUsed' = TRUE
    /\ \E down \in BOOLEAN :
        IF down THEN spc' = "spawn" /\ UNCHANGED caller
        ELSE IF schema # DB_SCHEMA
        THEN spc' = "keys" /\ caller' = "update"
        ELSE spc' = "spawn" /\ UNCHANGED caller
    /\ UNCHANGED <<cfg, cache, pc, reqVars, flags, schema, keys, purgeRet, pf,
                   pfKeys, delFailed, daneVars, legVars, stsVars, expVars>>

\* updateDatabase has returned and its result is dropped; the goroutine that
\* starts the prefetcher, server.go:183-189
SpawnPrefetcher_always ==
    /\ spc \in {"spawn", "flag"}
    /\ pf = "off"
    /\ pf' = IF flags.prefetch THEN "idle" ELSE "done"
    /\ spc' = "flag"
    /\ caller' = "none"
    /\ purgeRet' = "none"
    /\ delFailed' = FALSE
    /\ UNCHANGED <<cfg, cache, pc, reqVars, flags, schema, keys, pfKeys, dbUsed,
                   daneVars, legVars, stsVars, expVars>>

SpawnPrefetcher ==
    /\ spc = "spawn"
    /\ pf' = IF flags.prefetch THEN "idle" ELSE "done"
    /\ spc' = "flag"
    /\ caller' = "none"
    /\ purgeRet' = "none"
    /\ delFailed' = FALSE
    /\ UNCHANGED <<cfg, cache, pc, reqVars, flags, schema, keys, pfKeys, dbUsed,
                   daneVars, legVars, stsVars, expVars>>

\* the --purge branch calls purgeDatabase, which refuses when the cache is
\* disabled, server.go:194-202 and :493-495
PurgeFlag ==
    /\ spc = "flag"
    /\ flags.purge
    /\ delFailed' = FALSE
    /\ IF cfg.redisDisable
       THEN purgeRet' = "error" /\ spc' = "exit" /\ caller' = "purge"
       ELSE purgeRet' = "none" /\ spc' = "keys" /\ caller' = "purge"
    /\ UNCHANGED <<cfg, cache, pc, reqVars, flags, schema, keys, pf, pfKeys,
                   dbUsed, daneVars, legVars, stsVars, expVars>>

\* purgeDatabase: Keys(TLSPOL-*), server.go:496-499
PurgeKeys ==
    /\ spc = "keys"
    /\ dbUsed' = TRUE
    /\ \E down \in BOOLEAN :
        IF down THEN purgeReturns("error") /\ UNCHANGED keys
        ELSE keys' = MatchingKeys /\ spc' = "del" /\ UNCHANGED purgeRet
    /\ UNCHANGED <<cfg, cache, pc, reqVars, flags, schema, caller, pf, pfKeys,
                   delFailed, daneVars, legVars, stsVars, expVars>>

\* purgeDatabase: one Del of the loop, its error dropped, server.go:500-502
PurgeDel ==
    /\ spc = "del"
    /\ keys # {}
    /\ dbUsed' = TRUE
    /\ \E k \in keys, down \in BOOLEAN :
        /\ keys' = keys \ {k}
        /\ IF down THEN delFailed' = TRUE /\ UNCHANGED <<cache, schema>>
           ELSE IF k = SchemaKey
           THEN schema' = "" /\ UNCHANGED <<cache, delFailed>>
           ELSE cache' = [cache EXCEPT ![k] = Missing]
                /\ UNCHANGED <<schema, delFailed>>
    /\ UNCHANGED <<cfg, pc, reqVars, flags, spc, caller, purgeRet, pf, pfKeys,
                   daneVars, legVars, stsVars, expVars>>

\* purgeDatabase: Set(TLSPOL-schema, DB_SCHEMA) and the return, server.go:503
PurgeSet ==
    /\ spc = "del"
    /\ keys = {}
    /\ dbUsed' = TRUE
    /\ \E down \in BOOLEAN :
        IF down THEN purgeReturns("error") /\ UNCHANGED schema
        ELSE purgeReturns("nil") /\ schema' = DB_SCHEMA
    /\ UNCHANGED <<cfg, cache, pc, reqVars, flags, keys, caller, pf, pfKeys,
                   delFailed, daneVars, legVars, stsVars, expVars>>

\* startServer: the listener is up and a connection is handed to
\* handleConnection, server.go:205 and :209-232
startServer ==
    /\ spc = "flag"
    /\ ~flags.purge
    /\ \E ok \in BOOLEAN :
        IF ok THEN spc' = "serve" /\ pc' = "scan"
        ELSE spc' = "exit" /\ UNCHANGED pc
    /\ UNCHANGED <<cfg, cache, reqVars, flags, schema, keys, caller, purgeRet,
                   pf, pfKeys, dbUsed, delFailed, daneVars, legVars, stsVars, expVars>>

\* what a refresh stores (policy, report, ttl)
PrefetchResults == {Ret("", "", CACHE_NOTFOUND_TTL), Ret(DANE_POLICY, "", 3600)}

\* the prefetcher lists the keys whose remaining logical TTL (the expiry
\* less the margin) is below the margin; one tick is followed
PrefetchEnumerate ==
    /\ pf = "idle"
    /\ spc # "exit"
    /\ LET due == {k \in CacheKeys : cache[k].present
                       /\ cache[k].exp - PREFETCH_MARGIN < PREFETCH_MARGIN}
       IN /\ due # {}
          /\ pfKeys' = due
    /\ pf' = "refresh"
    /\ UNCHANGED <<cfg, cache, pc, reqVars, flags, spc, schema, keys, caller,
                   purgeRet, dbUsed, delFailed, daneVars, legVars, stsVars, expVars>>

\* the prefetcher resolves a listed domain again and stores the entry
PrefetchWrite ==
    /\ pf = "refresh"
    /\ spc # "exit"
    /\ \E k \in pfKeys, r \in PrefetchResults :
        /\ cache' = [cache EXCEPT ![k] =
                        Stored(jsonMarshal(CacheStruct(k[3], r.policy, r.report, r.ttl)),
                               setExpiry(r.ttl, 0))]
        /\ pfKeys' = pfKeys \ {k}
        /\ pf' = IF pfKeys \ {k} = {} THEN "done" ELSE "refresh"
    /\ UNCHANGED <<cfg, pc, reqVars, flags, spc, schema, keys, caller, purgeRet,
                   dbUsed, delFailed, daneVars, legVars, stsVars, expVars>>

NextStart ==
    \/ NewClient
    \/ updateDatabase
    \/ SpawnPrefetcher
    \/ PurgeFlag
    \/ PurgeKeys
    \/ PurgeDel
    \/ PurgeSet
    \/ startServer
    \/ PrefetchEnumerate
    \/ PrefetchWrite

(***************************************************************************)
(* handleConnection of part_001:108-212: one request per connection, the   *)
(* two evaluators merged under a mutex, the result cached as a string      *)
(***************************************************************************)
CACHE_MIN == 300
LEGACY_TEMP_TTL == 10
MaxConns == 2

LegacyFrames ==
    [cmd : {"query", "QUERY", "FOO"}, sep : {TRUE},
     arg : {"example.org", " Example.ORG ", "192.0.2.1", "2001:db8::1", ".example.org"}]
    \cup {[cmd |-> "query", sep |-> FALSE, arg |-> ""]}

\* strings.ToLower(parts[0]), part_001:131
ToLower(c) ==
    CASE c = "QUERY" -> "query"
      [] c = "FOO" -> "foo"
      [] OTHER -> c

LegacyEntry(val, ttl) == [present |-> TRUE, val |-> val, ttl |-> ttl]
LegacyMissing == [present |-> FALSE, val |-> "", ttl |-> 0]
NoSet == [done |-> FALSE, val |-> "", ttl |-> 0]
NoEval == [pol |-> "", ttl |-> 0]

\* the reply and the TTL chosen after wg.Wait(), part_001:199-210
legacyTtl(result, resultTtl) ==
    IF result = "" THEN CACHE_MIN
    ELSE IF result = "TEMP" THEN LEGACY_TEMP_TTL
    ELSE resultTtl

legacyReply(result) ==
    IF result = "" THEN "NOTFOUND "
    ELSE IF result = "TEMP" THEN "TEMP "
    ELSE "OK " \o result

NoRet == DaneRet("?", 0, {})

DaneIdle ==
    /\ mxResp = TransportError
    /\ tlsaResp = [t \in MXTargets |-> TransportError]
    /\ dpc = "off"
    /\ daneRet = NoRet

ServerIdle ==
    /\ cfg = [redisDisable |-> TRUE, tlsRpt |-> FALSE]
    /\ cache = [k \in CacheKeys |-> Missing]
    /\ pc = "off"
    /\ query = NoFrame
    /\ got = NoGet
    /\ world = NoWorld
    /\ gor = [g \in Evaluators |-> "none"]
    /\ qd = QdStart
    /\ ret = NoQueryRet
    /\ nScanned = 0
    /\ nWritten = 0
    /\ lastReply = NoReply
    /\ via = "none"
    /\ ops = NoOps
    /\ orphans = 0
    /\ ticks = 0

NoFetch == [err |-> TRUE, status |-> 0, body |-> <<>>]
NoStsRun == StsRun(StsRet("?", 0), FALSE)

StsIdle ==
    /\ txtResp = TransportError
    /\ httpResp = NoFetch
    /\ mpc = "off"
    /\ stsRet = NoStsRun

\* cacheJsonSet is not running
ExpIdle ==
    /\ setTtl = U32(0)
    /\ setJitter = 0
    /\ setDur = U32(0)
    /\ xpc = "idle"

AuxIdle == StsIdle /\ StartIdle /\ ExpIdle

LegacyIdle ==
    /\ lpc = "off"
    /\ lQuery = NoFrame
    /\ lCache = LegacyMissing
    /\ lDane = NoEval
    /\ lSts = NoEval
    /\ lDone = {}
    /\ lResult = ""
    /\ lResultTtl = CACHE_MIN
    /\ lReply = ""
    /\ lSet = NoSet
    /\ lConns = 0

InitLegacy ==
    /\ lpc = "read"
    /\ lQuery = NoFrame
    /\ lCache = LegacyMissing
    /\ lDane = NoEval
    /\ lSts = NoEval
    /\ lDone = {}
    /\ lResult = ""
    /\ lResultTtl = CACHE_MIN
    /\ lReply = ""
    /\ lSet = NoSet
    /\ lConns = 1
    /\ ServerIdle
    /\ DaneIdle
    /\ AuxIdle

\* what checkDANE(domain) can return over every script of the resolver
DaneResults ==
    UNION { UNION { { [pol |-> checkDANE(mxr, tlsar, order).policy,
                       ttl |-> checkDANE(mxr, tlsar, order).ttl] :
                      order \in Perms(Len(getMXRecords(mxr).mx)) } :
                    tlsar \in [MXTargets -> TLSAResponses] } :
            mxr \in MXResponses }

\* what checkMTASTS(domain) can return over every TXT answer and policy file
StsResults ==
    { [pol |-> checkMTASTS(txtr, httpr).policy,
       ttl |-> checkMTASTS(txtr, httpr).ttl] :
      txtr \in TXTResponses, httpr \in HTTPResponses }

\* conn.Read, the parse, the early replies and the cache lookup,
\* part_001:111-163
LegacyRead ==
    /\ lpc = "read"
    /\ \E f \in LegacyFrames, down \in BOOLEAN :
        LET parts == SplitN(f)
            domain == NormalizeDomain(parts[2])
        IN /\ lQuery' = f
           /\ IF Len(parts) # 2 \/ ToLower(parts[1]) # "query"
              THEN lReply' = "PERM " /\ lpc' = "done"
              ELSE IF IsIPv4(domain) \/ IsIPv6(domain) \/ HasDotPrefix(domain)
              THEN lReply' = "NOTFOUND " /\ lpc' = "done"
              ELSE IF lCache.present /\ ~down
              THEN /\ lReply' = (IF lCache.val = "" THEN "NOTFOUND "
                                 ELSE "OK " \o lCache.val)
                   /\ lpc' = "done"
              ELSE lReply' = "" /\ lpc' = "eval"
    /\ lDane' = NoEval
    /\ lSts' = NoEval
    /\ lDone' = {}
    /\ lResult' = ""
    /\ lResultTtl' = CACHE_MIN
    /\ lSet' = NoSet
    /\ UNCHANGED <<lCache, lConns, daneVars, srvVars, auxVars>>

\* the DANE goroutine, part_001:172-182
LegacyDane ==
    /\ lpc = "eval"
    /\ "dane" \notin lDone
    /\ \E r \in DaneResults :
        /\ lDane' = r
        /\ IF r.pol # ""
           THEN lResult' = r.pol /\ lResultTtl' = r.ttl
           ELSE UNCHANGED <<lResult, lResultTtl>>
    /\ lDone' = lDone \cup {"dane"}
    /\ UNCHANGED <<lpc, lQuery, lCache, lSts, lReply, lSet, lConns, daneVars, srvVars, auxVars>>

\* the MTA-STS goroutine, part_001:185-195
LegacySts ==
    /\ lpc = "eval"
    /\ "sts" \notin lDone
    /\ \E r \in StsResults :
        /\ lSts' = r
        /\ IF r.pol # "" /\ lResult = ""
           THEN lResult' = r.pol /\ lResultTtl' = r.ttl
           ELSE UNCHANGED <<lResult, lResultTtl>>
    /\ lDone' = lDone \cup {"sts"}
    /\ UNCHANGED <<lpc, lQuery, lCache, lDane, lReply, lSet, lConns, daneVars, srvVars, auxVars>>

\* wg.Wait() returns: the reply, the TTL, client.Set, part_001:197-211
LegacyFinish ==
    /\ lpc = "eval"
    /\ lDone = Evaluators
    /\ lReply' = legacyReply(lResult)
    /\ lResultTtl' = legacyTtl(lResult, lResultTtl)
    /\ lSet' = [done |-> TRUE, val |-> lResult, ttl |-> lResultTtl']
    /\ \E down \in BOOLEAN :
        lCache' = IF down THEN lCache ELSE LegacyEntry(lResult, lResultTtl')
    /\ lpc' = "done"
    /\ UNCHANGED <<lQuery, lDane, lSts, lDone, lResult, lConns, daneVars, srvVars, auxVars>>

\* the listener accepts the next connection, part_001:98-105
LegacyAccept ==
    /\ lpc = "done"
    /\ lConns < MaxConns
    /\ lConns' = lConns + 1
    /\ lpc' = "read"
    /\ UNCHANGED <<lQuery, lCache, lDane, lSts, lDone, lResult, lResultTtl,
                   lReply, lSet, daneVars, srvVars, auxVars>>

\* the backend drops the entry when its expiry has run down
LegacyExpire ==
    /\ lpc = "done"
    /\ lCache.present
    /\ lCache' = LegacyMissing
    /\ UNCHANGED <<lpc, lQuery, lDane, lSts, lDone, lResult, lResultTtl,
                   lReply, lSet, lConns, daneVars, srvVars, auxVars>>

NextLegacy ==
    \/ LegacyRead
    \/ LegacyDane
    \/ LegacySts
    \/ LegacyFinish
    \/ LegacyAccept
    \/ LegacyExpire

(***************************************************************************)
(* SpecDane: the stub is scripted, then checkDANE runs once.               *)
(***************************************************************************)
InitDane ==
    /\ ServerIdle
    /\ LegacyIdle
    /\ AuxIdle
    /\ mxResp \in MXResponses
    /\ tlsaResp \in [MXTargets -> TLSAResponses]
    /\ dpc = "start"
    /\ daneRet = NoRet

RunCheckDANE ==
    /\ dpc = "start"
    /\ \E order \in Perms(Len(getMXRecords(mxResp).mx)) :
           daneRet' = checkDANE(mxResp, tlsaResp, order)
    /\ dpc' = "done"
    /\ UNCHANGED <<mxResp, tlsaResp, srvVars, legVars, auxVars>>

NextDane == RunCheckDANE

SpecDane == InitDane /\ [][NextDane]_vars

(***************************************************************************)
(* SpecSts: the stubs are scripted, then checkMTASTS runs once.            *)
(***************************************************************************)
InitSts ==
    /\ ServerIdle
    /\ DaneIdle
    /\ LegacyIdle
    /\ StartIdle
    /\ ExpIdle
    /\ txtResp \in TXTResponses
    /\ httpResp \in HTTPResponses
    /\ mpc = "start"
    /\ stsRet = NoStsRun

RunCheckMTASTS ==
    /\ mpc = "start"
    /\ stsRet' = checkMTASTS(txtResp, httpResp)
    /\ mpc' = "done"
    /\ UNCHANGED <<txtResp, httpResp, daneVars, srvVars, legVars, startVars, expVars>>

NextSts == RunCheckMTASTS

SpecSts == InitSts /\ [][NextSts]_vars

(***************************************************************************)
(* Spec: the daemon serving one connection                                 *)
(***************************************************************************)
Init == InitServer /\ DaneIdle /\ LegacyIdle /\ AuxIdle

Spec == Init /\ [][Next]_vars

(***************************************************************************)
(* SpecStart: StartDaemon from the loaded configuration on, up to the       *)
(* return of main or the first connection, with the prefetcher beside it   *)
(***************************************************************************)
InitStart ==
    /\ cfg \in [redisDisable : BOOLEAN, tlsRpt : BOOLEAN]
    /\ cache \in [CacheKeys -> {Missing} \cup OldEntries]
    /\ pc = "off"
    /\ query = NoFrame
    /\ got = NoGet
    /\ world = NoWorld
    /\ gor = [g \in Evaluators |-> "none"]
    /\ qd = QdStart
    /\ ret = NoQueryRet
    /\ nScanned = 0
    /\ nWritten = 0
    /\ lastReply = NoReply
    /\ via = "none"
    /\ ops = NoOps
    /\ orphans = 0
    /\ ticks = 0
    /\ spc = "init"
    /\ flags \in [prefetch : BOOLEAN, purge : BOOLEAN]
    /\ schema \in SchemaTags
    /\ keys = {}
    /\ caller = "none"
    /\ purgeRet = "none"
    /\ pf = "off"
    /\ pfKeys = {}
    /\ dbUsed = FALSE
    /\ delFailed = FALSE
    /\ DaneIdle
    /\ LegacyIdle
    /\ StsIdle
    /\ ExpIdle

SpecStart == InitStart /\ [][NextStart]_vars

(***************************************************************************)
(* SpecDaemon: StartDaemon, then the connection of Spec with the           *)
(* prefetcher beside it.  With the cache enabled the backend starts clean; *)
(* with the cache disabled it holds whatever an earlier run left.          *)
(***************************************************************************)
InitDaemon ==
    /\ InitStart
    /\ ~cfg.redisDisable =>
           (schema = DB_SCHEMA /\ cache = [k \in CacheKeys |-> Missing])

NextDaemon == NextStart \/ Next

SpecDaemon == InitDaemon /\ [][NextDaemon]_vars

(***************************************************************************)
(* The connection of Spec under a fair scheduler                           *)
(***************************************************************************)
SpecFair == Init /\ [][Next]_vars /\ Fairness

(***************************************************************************)
(* cacheJsonSet, server.go:483-490, run on its own over the TTLs           *)
(* queryDomain can return: the smallest, common ones, and the largest      *)
(* values of a uint32                                                      *)
(***************************************************************************)
MaxUint32 == [hi |-> LIMB - 1, lo |-> LIMB - 1]

TtlSamples ==
    {U32(CACHE_MIN_TTL), U32(CACHE_NOTFOUND_TTL), U32(86400),
     sub32(MaxUint32, U32(PREFETCH_MARGIN)),
     sub32(MaxUint32, U32(PREFETCH_MARGIN - 1)),
     sub32(MaxUint32, U32(PREFETCH_MARGIN - JITTER_RANGE)),
     MaxUint32}

InitExpiry ==
    /\ ServerIdle
    /\ DaneIdle
    /\ LegacyIdle
    /\ StsIdle
    /\ StartIdle
    /\ setTtl \in TtlSamples
    /\ setJitter \in 0..(JITTER_RANGE - 1)
    /\ setDur = U32(0)
    /\ xpc = "start"

\* the duration of server.go:489, data.Ttl+PREFETCH_MARGIN-rand.Uint32N(60)
cacheJsonSet ==
    /\ xpc = "start"
    /\ setDur' = setExpiry32(setTtl, setJitter)
    /\ xpc' = "done"
    /\ UNCHANGED <<setTtl, setJitter, daneVars, srvVars, legVars, stsVars,
                   startVars>>

NextExpiry == cacheJsonSet

SpecExpiry == InitExpiry /\ [][NextExpiry]_vars

(***************************************************************************)
(* Claims about checkDANE (SpecDane)                                       *)
(***************************************************************************)
\* the stub's view of the inputs, stated without the program's operators
MXAuthenticated ==
    ~mxResp.err /\ RcodeOk(mxResp) /\ mxResp.ad /\ OfType(mxResp.answer, "MX") # <<>>

StubTargets == {rec.name : rec \in Range(OfType(mxResp.answer, "MX"))}

TLSALookupFailed(t) == tlsaResp[t].err \/ ~RcodeOk(tlsaResp[t])

TLSAProtected(t) ==
    /\ ~tlsaResp[t].err
    /\ tlsaResp[t].ad
    /\ \E k \in 1..Len(tlsaResp[t].answer) : tlsaResp[t].answer[k].type = "TLSA"

\* C3 (as stated): an MX response without AD=1 always gives the DANE verdict
\* None, with no TLSA lookup issued.
C3_Original ==
    (dpc = "done" /\ ~mxResp.err /\ ~mxResp.ad)
        => (daneRet.policy = "" /\ daneRet.issued = {})

\* C3 (amended): an MX response without AD=1 never gives Dane and issues no
\* TLSA lookup; the verdict is None when the response code is NOERROR or
\* NXDOMAIN and Temp for any other response code.
C3_NoADNeverDane ==
    (dpc = "done" /\ ~mxResp.err /\ ~mxResp.ad)
        => /\ daneRet.policy # "dane"
           /\ daneRet.issued = {}
           /\ RcodeOk(mxResp) => daneRet.policy = ""
           /\ ~RcodeOk(mxResp) => daneRet.policy = "TEMP"

\* C3 witness: MX records and protected TLSA records exist, only AD is missing
\* on the MX response, and checkDANE has answered None.
C3_Witness ==
    /\ dpc = "done" /\ ~mxResp.err /\ ~mxResp.ad /\ RcodeOk(mxResp)
    /\ StubTargets = MXTargets
    /\ \A t \in MXTargets : TLSAProtected(t) /\ RcodeOk(tlsaResp[t])
    /\ daneRet.policy = ""

\* C4: with an authenticated, non-empty MX set and no failed lookup, the
\* verdict is Dane exactly when every MX target has TLSA records in an answer
\* carrying AD=1, and None otherwise.
C4_DaneIffAllProtected ==
    (dpc = "done" /\ MXAuthenticated /\ \A t \in StubTargets : ~TLSALookupFailed(t))
        => /\ daneRet.policy = "dane" <=> \A t \in StubTargets : TLSAProtected(t)
           /\ daneRet.policy \in {"dane", ""}
           /\ daneRet.issued = StubTargets

\* C4 witness: two MX targets, one protected and one with an unauthenticated
\* TLSA answer; the verdict is None.
C4_Witness ==
    /\ dpc = "done" /\ MXAuthenticated /\ StubTargets = MXTargets
    /\ \A t \in MXTargets : ~TLSALookupFailed(t)
    /\ TLSAProtected("mx1")
    /\ ~tlsaResp["mx2"].ad /\ OfType(tlsaResp["mx2"].answer, "TLSA") # <<>>
    /\ daneRet.policy = ""

\* C5 (as stated): a failed TLSA lookup for any MX target (transport error, or
\* a response code other than NOERROR and NXDOMAIN) gives the verdict Temp.
C5_FailedLookupIsTemp ==
    (dpc = "done" /\ MXAuthenticated /\ \E t \in StubTargets : TLSALookupFailed(t))
        => daneRet.policy = "TEMP"

(***************************************************************************)
(* Claims about checkMTASTS (SpecSts)                                      *)
(***************************************************************************)
\* the stub's view of the TXT answer
TXTLookupFailed == txtResp.err \/ ~RcodeOk(txtResp)

STSv1Strings == {"v=STSv1; id=20240101", "v=STSv1;id=7"}

HasSTSv1Record ==
    \E k \in 1..Len(txtResp.answer) :
        /\ txtResp.answer[k].type = "TXT"
        /\ Range(txtResp.answer[k].txt) \cap STSv1Strings # {}

\* C12: a failed TXT lookup (transport error, or a response code other than
\* NOERROR and NXDOMAIN) gives Temp; an answer without a TXT string that
\* begins with v=STSv1 gives None; in both cases no HTTPS fetch is made, and
\* a fetch is made only after such a record was seen.
C12_NoFetchWithoutRecord ==
    mpc = "done" =>
        /\ TXTLookupFailed => (stsRet.policy = "TEMP" /\ ~stsRet.fetched)
        /\ (~TXTLookupFailed /\ ~HasSTSv1Record) =>
               (stsRet.policy = "" /\ ~stsRet.fetched)
        /\ stsRet.fetched <=> (~TXTLookupFailed /\ HasSTSv1Record)

\* C12 witness: the TXT answer holds only a record whose string does not
\* begin with v=STSv1 while an enforce policy is published; checkMTASTS
\* answered None and fetched nothing.
C12_Witness ==
    /\ mpc = "done" /\ ~TXTLookupFailed /\ ~HasSTSv1Record
    /\ txtResp.answer = <<TXT(<<" v=STSv1; id=1">>)>>
    /\ ~httpResp.err /\ httpResp.status = 200
    /\ HasKey(httpResp.body[1], "mode") /\ httpResp.body[1][2] = "enforce"
    /\ stsRet.policy = "" /\ ~stsRet.fetched

\* the stub's view of the policy file: the trimmed values of the lines that
\* carry a key, in file order
RECURSIVE ValuesOf(_, _)
ValuesOf(body, key) ==
    IF body = <<>> THEN <<>>
    ELSE (IF HasKey(Head(body), key) THEN <<TrimSpace(Head(body)[2])>> ELSE <<>>)
         \o ValuesOf(Tail(body), key)

Last(seq, default) == IF seq = <<>> THEN default ELSE seq[Len(seq)]

FileMode == Last(ValuesOf(httpResp.body, "mode"), "")
FileMaxAge == ParseUint(Last(ValuesOf(httpResp.body, "max_age"), ""))
FileMx == ValuesOf(httpResp.body, "mx")

\* the mx patterns with "*." reduced to its ".tail", each kept once, in order
\* of first appearance
RECURSIVE DistinctPatterns(_, _)
DistinctPatterns(mxs, seen) ==
    IF mxs = <<>> THEN seen
    ELSE DistinctPatterns(Tail(mxs),
             IF StripWildcard(Head(mxs)) \in Range(seen) THEN seen
             ELSE Append(seen, StripWildcard(Head(mxs))))

RecordSeen == mpc = "done" /\ ~TXTLookupFailed /\ HasSTSv1Record
Fetched200 == ~httpResp.err /\ httpResp.status = 200

\* every mx line of the file, a leading "*." reduced to its tail
Patterns(mxs) == [k \in 1..Len(mxs) |-> StripWildcard(mxs[k])]

\* C13 (as stated): after the STSv1 record was found, a policy fetched with
\* status 200 and mode enforce gives "secure match=" + the mx entries of the
\* file joined by ":" + " servername=hostname" with TTL = max_age; any other
\* or no mode gives None; a fetch error or a status other than 200 gives Temp.
C13_Original ==
    RecordSeen =>
        /\ ~Fetched200 => stsRet.policy = "TEMP"
        /\ (Fetched200 /\ FileMode # "enforce") => stsRet.policy = ""
        /\ (Fetched200 /\ FileMode = "enforce") =>
               /\ stsRet.policy =
                      "secure match=" \o Join(Patterns(FileMx))
                          \o " servername=hostname"
               /\ ~FileMaxAge.err => stsRet.ttl = FileMaxAge.n

\* C13 (amended): as above, with the mx entries taken once each in order of
\* first appearance and a leading "*." reduced to ".", and TTL = max_age
\* when it parses as an unsigned 32-bit number and 0 when it does not.
C13_DirectiveFromPolicy ==
    RecordSeen =>
        /\ ~Fetched200 => (stsRet.policy = "TEMP" /\ stsRet.ttl = 0)
        /\ (Fetched200 /\ FileMode # "enforce") => stsRet.policy = ""
        /\ (Fetched200 /\ FileMode = "enforce") =>
               /\ stsRet.policy =
                      "secure match=" \o Join(DistinctPatterns(FileMx, <<>>))
                          \o " servername=hostname"
               /\ stsRet.ttl = (IF FileMaxAge.err THEN 0 ELSE FileMaxAge.n)

\* C13 witness: an enforce policy naming mx1.example.org and *.example.net
\* with max_age 86400 was fetched with status 200.
C13_Witness ==
    /\ RecordSeen /\ Fetched200 /\ FileMode = "enforce"
    /\ FileMx = <<"mx1.example.org", "*.example.net">>
    /\ stsRet.policy = "secure match=mx1.example.org:.example.net servername=hostname"
    /\ stsRet.ttl = 86400 /\ stsRet.fetched

(***************************************************************************)
(* SpecLegacy: the first program, connections served one after the other   *)
(***************************************************************************)
SpecLegacy == InitLegacy /\ [][NextLegacy]_vars

(***************************************************************************)
(* Claims about the stored TTL (SpecLegacy)                                *)
(***************************************************************************)
\* the upstream TTL of the side whose policy became the result
ChosenTtl == IF lDane.pol = lSet.val THEN lDane.ttl ELSE lSts.ttl

\* C2: the TTL stored with a result is 600 s for None, 180 s for Temp and
\* max(upstream TTL of the chosen side, 180) for a positive verdict.  The
\* handler of part_001 stores 300 s, 10 s and the unfloored upstream TTL.
C2_StoredTtlNormalised ==
    lSet.done =>
        lSet.ttl = (IF lSet.val = "" THEN CACHE_NOTFOUND_TTL
                    ELSE IF lSet.val = "TEMP" THEN CACHE_MIN_TTL
                    ELSE IF ChosenTtl < CACHE_MIN_TTL THEN CACHE_MIN_TTL
                    ELSE ChosenTtl)

(***************************************************************************)
(* Claims about the start of the daemon (SpecStart, SpecDaemon)            *)
(***************************************************************************)
Positive(policy) == policy # "" /\ policy # "TEMP"

\* whether the command of the current frame asks for the TLSRPT suffix
TlsRptRequested == withTlsRpt(cmdOf(query))

NoEntryLeft == \A k \in CacheKeys : ~cache[k].present

\* C14 (as stated): once updateDatabase has run with a stored schema tag that
\* is absent or differs from DB_SCHEMA, no TLSPOL- key other than
\* TLSPOL-schema exists and TLSPOL-schema holds DB_SCHEMA, before the
\* prefetcher starts and before a connection is served.
C14_SchemaWipe ==
    (spc = "spawn" /\ (caller = "update" \/ schema # DB_SCHEMA))
        => /\ NoEntryLeft
           /\ schema = DB_SCHEMA
           /\ pf = "off"
           /\ pc = "off"

\* purgeDatabase has just returned to its caller
PurgeReturned ==
    \/ spc = "spawn" /\ caller = "update"
    \/ spc = "exit" /\ caller = "purge"

\* C17 (as stated): when purgeDatabase returns without error, every TLSPOL-
\* key other than TLSPOL-schema is gone and TLSPOL-schema holds DB_SCHEMA,
\* whatever the prefetcher of the same process wrote meanwhile.  Stated for
\* the runs in which no Del failed, so that only the interleaving is judged.
C17_PurgeLeavesNothing ==
    (PurgeReturned /\ purgeRet = "nil" /\ ~delFailed)
        => (NoEntryLeft /\ schema = DB_SCHEMA)

\* the frame just answered is a QUERY or QUERYwithTLSRPT for a valid domain
ValidQueryAnswered ==
    /\ pc = "scan" /\ query # NoFrame /\ query.sep
    /\ cmdOf(query) \in KnownCommands /\ cmdOf(query) # "JSON"
    /\ ~InvalidDomain(domainOf(query))

\* C15: with redis.disable set no backend command is ever issued: StartDaemon
\* issues none, request handling makes no get and no set, the prefetcher is
\* never started even with prefetch enabled, purgeDatabase returns an error,
\* and every valid query is answered from the resolver.
C15_NoCacheWhenDisabled ==
    cfg.redisDisable =>
        /\ ~dbUsed
        /\ ops.get = 0 /\ ops.set = 0
        /\ pf = "off" /\ pfKeys = {}
        /\ spc \notin {"update", "spawn", "keys", "del"}
        /\ caller = "purge" => (purgeRet = "error" /\ spc = "exit")
        /\ via # "cache"
        /\ ValidQueryAnswered =>
               /\ via = "resolver"
               /\ ops.eval = 2
               /\ lastReply = replySocketmap(ret.policy, ret.report, TlsRptRequested)

\* C15 witness: cache disabled, prefetch enabled, an entry of an earlier run
\* still in the backend; the second query of the connection was answered
\* from the resolver with a positive verdict.
C15_Witness ==
    /\ cfg.redisDisable /\ flags.prefetch /\ ~NoEntryLeft
    /\ ValidQueryAnswered /\ nScanned = 2
    /\ via = "resolver" /\ Positive(ret.policy)

(***************************************************************************)
(* Claims about the daemon (Spec)                                          *)
(***************************************************************************)

\* the precedence as the specification words it
SpecMerge(d, m) ==
    IF Positive(d.Policy) THEN d.Policy
    ELSE IF Positive(m.Policy) THEN m.Policy
    ELSE IF d.Policy = "TEMP" \/ m.Policy = "TEMP" THEN "TEMP"
    ELSE ""

C7_OneReplyPerFrame ==
    /\ pc \in {"scan", "closed", "store"} => nWritten = nScanned
    /\ pc \in {"cache", "query", "recv", "reply", "json", "jsonwait"} =>
           nWritten = nScanned - 1

\* C7 witness: two frames on one connection, the second answered from the
\* cache, two writes.
C7_Witness ==
    pc = "scan" /\ nScanned = 2 /\ nWritten = 2 /\ via = "cache"

KnownSpellings == {"QUERY", "query", "QUERYwithTLSRPT", "JSON"}

\* C8: a frame whose command is none of QUERY, QUERYwithTLSRPT, JSON in any
\* letter case is answered PERM, the connection is closed, and no cache or
\* evaluator operation ran for it; a closed connection reads and writes
\* nothing more.
C8_UnknownCommandPerm ==
    /\ [](  (query # NoFrame /\ query.cmd \notin KnownSpellings)
           => /\ pc = "closed"
              /\ lastReply = NS_PERM
              /\ nWritten = nScanned
              /\ ops = NoOps )
    /\ [][ pc = "closed" =>
             (pc' = "closed" /\ nScanned' = nScanned /\ nWritten' = nWritten
              /\ cache' = cache /\ ops' = ops) ]_vars

\* C8 witness: the second frame of a connection was FOO; PERM was written and
\* the connection is closed.
C8_Witness ==
    /\ query.cmd = "FOO" /\ nScanned = 2 /\ pc = "closed" /\ lastReply = NS_PERM

InvalidArgs == {"192.0.2.1", "2001:db8::1", ".example.org", "exa mple.org", ""}

\* C9 (as stated): a frame with a known command and an invalid domain is
\* answered NOTFOUND, the connection stays open, and no cache operation and no
\* evaluation runs for it, for QUERY, QUERYwithTLSRPT and JSON alike.
C9_InvalidDomainNotFound ==
    (query.sep /\ query.cmd \in KnownSpellings /\ query.arg \in InvalidArgs)
        => /\ ops = NoOps
           /\ pc # "closed"
           /\ pc = "scan" => lastReply = NS_NOTFOUND

\* the directive and report behind the reply of the current frame
Directive == IF via = "cache" THEN got.data.Result ELSE ret.policy
Report == IF via = "cache" THEN got.data.Report ELSE ret.report
QueryAnswered ==
    /\ query.cmd \in {"QUERY", "query"}
    /\ via \in {"cache", "resolver"}
    /\ Positive(Directive)

\* C10 (as stated): the positive reply to QUERY is "OK " + directive under
\* every configuration.
C10_Original == QueryAnswered => lastReply = NS("OK " \o Directive)

\* C10 (amended): the positive reply to QUERY is "OK " + directive when
\* server.tlsrpt is off, from the cache and from the resolver alike; when
\* server.tlsrpt is on QUERY replies as QUERYwithTLSRPT does, with
\* " " + report appended.
C10_QueryFollowsConfig ==
    QueryAnswered =>
        lastReply = NS("OK " \o Directive \o
                       (IF cfg.tlsRpt THEN " " \o Report ELSE ""))

\* C10 witness: server.tlsrpt off, a QUERY served from a cache entry that
\* carries a report, answered without it.
C10_Witness ==
    /\ ~cfg.tlsRpt /\ QueryAnswered /\ via = "cache"
    /\ Report = STS_REPORT
    /\ lastReply = NS("OK " \o STS_POLICY)

\* C11 (as stated): the reply payload is "NOTFOUND " for None, "TEMP " for
\* Temp and, for a Dane verdict, "OK dane-only" with " " + report appended
\* only when TLSRPT is requested and the report is not empty; a Dane verdict
\* with TLSRPT requested has no trailing separator.
C11_ReplyIsFunctionOfVerdict ==
    via \in {"cache", "resolver"} =>
        /\ Directive = "" => lastReply = NS("NOTFOUND ")
        /\ Directive = "TEMP" => lastReply = NS("TEMP ")
        /\ Directive = DANE_POLICY =>
               lastReply = NS("OK dane-only" \o
                              (IF TlsRptRequested /\ Report # ""
                               THEN " " \o Report ELSE ""))

\* C16: with the cache enabled a backend failure never changes the answer:
\* a failed get writes nothing and hands the request to the resolver, whose
\* reply is computed from the resolver's result alone, as on a miss; the set
\* after the reply, failed or not, leaves the reply as written and the
\* connection reading the next frame.
C16_BackendFailureIsMiss ==
    /\ [][ (pc = "cache" /\ ~cfg.redisDisable /\ got'.err) =>
              (pc' = "query" /\ nWritten' = nWritten /\ lastReply' = lastReply) ]_vars
    /\ []((via = "resolver" /\ (pc = "store" \/ ValidQueryAnswered)) =>
              lastReply = replySocketmap(ret.policy, ret.report, TlsRptRequested))
    /\ [][ pc = "store" =>
              (pc' = "scan" /\ nWritten' = nWritten /\ lastReply' = lastReply
               /\ nScanned' = nScanned) ]_vars

\* C16 witness: on the second frame the get failed although a fresh entry
\* was stored, the resolver answered, and the set failed too (the backend
\* still holds the entry of the first frame); the connection is back at the
\* scanner.
C16_Witness ==
    LET k == getCacheKey(domainOf(query))
    IN /\ pc = "scan" /\ nScanned = 2 /\ ~cfg.redisDisable
       /\ ValidQueryAnswered /\ via = "resolver"
       /\ got.err /\ cache[k].present /\ cache[k].exp > PREFETCH_MARGIN
       /\ ops.set = 1 /\ jsonUnmarshal(cache[k].json).Result # ret.policy

\* C18 (as stated): queryDomain returns only after both evaluators have
\* delivered: exactly two results were received from the channel.
C18_BothResultsReceived ==
    pc \in {"reply", "store"} =>
        (qd.i = 2 /\ \A g \in Evaluators : gor[g] = "done")

\* the triple the two outcomes determine, whatever the order of arrival
ChosenSide(w) == IF w.dane.Policy # "" THEN w.dane ELSE w.sts

ExpectedTriple(w) ==
    LET c == ChosenSide(w)
    IN Ret(c.Policy, c.Rpt,
           IF c.Policy = "" THEN 600
           ELSE IF c.Policy = "TEMP" \/ c.Ttl < 180 THEN 180
           ELSE c.Ttl)

\* C20: the verdict, report and TTL queryDomain returns are a function of the
\* two evaluator outcomes alone; the order of arrival does not show.
C20_OrderIndependent ==
    pc \in {"reply", "store"} => ret = ExpectedTriple(world)

\* C20 witness: both sides positive, the MTA-STS result was received first
\* and the DANE result second (two receives); queryDomain returned the DANE
\* verdict as it does when DANE arrives first.
C20_Witness ==
    /\ pc = "reply" /\ qd.i = 2
    /\ world.dane.Policy = DANE_POLICY /\ world.sts.Policy = STS_POLICY
    /\ ret.policy = DANE_POLICY

\* C23: the set after a miss leaves every other key alone and stores, under
\* the key of the domain, an entry that decodes to the domain, the policy,
\* the report and the normalised TTL just replied; the payload
\* tryCachedPolicy writes from that entry equals the payload replySocketmap
\* wrote for the miss, for the flag of the request and for either flag; and
\* every entry in the cache carries the domain of its key.
C23_CacheTransparent ==
    /\ [][ (pc = "store" /\ pc' = "scan" /\ cache' # cache) =>
              LET k == getCacheKey(domainOf(query))
                  e == jsonUnmarshal(cache'[k].json)
              IN /\ \A o \in CacheKeys \ {k} : cache'[o] = cache[o]
                 /\ cache'[k].present
                 /\ e = CacheStruct(domainOf(query), ret.policy, ret.report, ret.ttl)
                 /\ e.Ttl = ExpectedTriple(world).ttl
                 /\ cachedReply(e, TlsRptRequested) = lastReply
                 /\ \A f \in BOOLEAN :
                        cachedReply(e, f) = replySocketmap(ret.policy, ret.report, f) ]_vars
    /\ [](\A d \in ValidDomains :
              cache[getCacheKey(d)].present =>
                  jsonUnmarshal(cache[getCacheKey(d)].json).Domain = d)

\* C23 witness: the second frame of the connection was served from the
\* entry stored after the miss of the first: an MTA-STS verdict with its
\* report, TLSRPT requested, the payload being the one replySocketmap builds.
C23_Witness ==
    /\ pc = "scan" /\ nScanned = 2 /\ via = "cache" /\ ops.get = 1
    /\ TlsRptRequested
    /\ got.data = CacheStruct(domainOf(query), STS_POLICY, STS_REPORT, 86400)
    /\ lastReply = replySocketmap(STS_POLICY, STS_REPORT, TRUE)

\* C24: while a JSON command is handled the cache is neither read nor
\* written: no step changes it and no get or set is issued; the reply is
\* written after both evaluators finished and carries the DANE result and the
\* MTA-STS result as the evaluators returned them, TTLs included, whatever
\* the other side found.
C24_JsonLeavesCacheAlone ==
    /\ [][ (pc \in {"json", "jsonwait"}) => (cache' = cache) ]_vars
    /\ [](pc \in {"json", "jsonwait"} => (ops.get = 0 /\ ops.set = 0))
    /\ []((pc = "scan" /\ via = "json") =>
            /\ \A g \in Evaluators : gor[g] = "done"
            /\ ops = [get |-> 0, set |-> 0, eval |-> 2]
            /\ lastReply.framing = "json"
            /\ lastReply.payload.domain = domainOf(query)
            /\ lastReply.payload.dane =
                   [policy |-> world.dane.Policy, ttl |-> world.dane.Ttl]
            /\ lastReply.payload.mtasts =
                   [policy |-> world.sts.Policy, ttl |-> world.sts.Ttl,
                    report |-> world.sts.Rpt])

\* C24 witness: a JSON command on a connection whose first frame filled the
\* cache; both sides found a policy, each with a TTL below the floor, and
\* both are in the reply as returned.
C24_Witness ==
    /\ pc = "scan" /\ via = "json" /\ nScanned = 2
    /\ \E k \in CacheKeys : cache[k].present
    /\ world.dane.Policy = DANE_POLICY /\ world.dane.Ttl < CACHE_MIN_TTL
    /\ world.sts.Policy = STS_POLICY /\ world.sts.Ttl < CACHE_MIN_TTL
    /\ lastReply.payload.mtasts.policy = STS_POLICY
    /\ lastReply.payload.mtasts.ttl = world.sts.Ttl

\* C22: the results channel is closed at most once and only after both
\* goroutines completed their send: while it is closed two results were
\* received and no goroutine is evaluating, sending or left blocked, and no
\* further iteration of the loop (which would close again) takes place.
C22_ClosedOnceAfterBothSends ==
    /\ [](qd.closed => (qd.i = 2 /\ \A g \in Evaluators : gor[g] = "done"))
    /\ [][ (qd.closed /\ qd' # QdStart) => qd' = qd ]_vars

\* C22 witness: the DANE result arrived second with a positive policy: the
\* iteration closed the channel and then left the loop by the break.
C22_Witness ==
    /\ pc = "reply" /\ qd.closed /\ qd.i = 2
    /\ world.dane.Policy = DANE_POLICY /\ ret.policy = DANE_POLICY

(***************************************************************************)
(* Claims about the goroutines of queryDomain (SpecFair)                   *)
(***************************************************************************)
\* C21 (as stated): under fair scheduling and terminating lookups every
\* evaluator goroutine started by a request eventually completes.
C21_EveryEvaluatorTerminates ==
    \A g \in Evaluators : (gor[g] = "eval") ~> (gor[g] = "done")

(***************************************************************************)
(* Claims about cacheJsonSet (SpecExpiry)                                  *)
(***************************************************************************)
\* ttl + d as a number, in limbs, without reduction modulo 2^32
Sum(ttl32, d) ==
    LET lo == ttl32.lo + d
    IN [hi |-> ttl32.hi + lo \div LIMB, lo |-> lo % LIMB]

\* C19 (as stated): the expiry handed to the backend lies between
\* ttl + margin - 60 and ttl + margin seconds, for every ttl up to 2^32 - 1.
C19_ExpiryInWindow ==
    xpc = "done" =>
        \E d \in (PREFETCH_MARGIN - JITTER_RANGE)..PREFETCH_MARGIN :
            setDur = Sum(setTtl, d)

====
